---- MODULE Spec2Model ----
(***************************************************************************)
(* Interview-scheduling sessions persisted as one JSON document.           *)
(* Model of src/main.py (DateManager, Setup, InterviewSession, Report) and *)
(* src/data/json_data_manager.py (JSONData).                               *)
(*                                                                         *)
(* Encoding of Python values: every value is a record [t, v] with t the    *)
(* Python type name.  Formatted strings are kept as the tuple of their     *)
(* numeric fields: "YYYY-MM-DD" is <<y, m, d>>, "D-M-YYYY" is <<d, m, y>>,  *)
(* "HH:MM:SS" is <<h, m, s>>, "HH:MM" is <<h, m>>, "DD-MM" is <<d, m>>.     *)
(* A dict is the sequence of its [k, v] items in insertion order.          *)
(***************************************************************************)
EXTENDS Integers, Sequences, FiniteSets, TLC

VARIABLES year, file, pc, log, args, ret

vars == <<year, file, pc, log, args, ret>>

(* ---------------------------- bounds ----------------------------------- *)

FirstYear == 2023
LastYear == 2024
MaxBookings == 2
MaxInterrupts == 1
MaxDuration == 4
MaxBreak == 2

Years == FirstYear..LastYear

(* ------------------------- Python values ------------------------------- *)

None == [t |-> "NoneType", v |-> ""]
Str(s) == [t |-> "str", v |-> s]
List(items) == [t |-> "list", v |-> items]
Dict(items) == [t |-> "dict", v |-> items]
EmptyDict == Dict(<<>>)

IsNone(x) == x.t = "NoneType"

\* outcome of a call: exc = "" when it returned val, else the exception raised
Returns(val) == [exc |-> "", val |-> val]
Raises(e) == [exc |-> e, val |-> None]

\* key in d
Has(d, key) == \E i \in 1..Len(d.v) : d.v[i].k = key

\* d[key]
Get(d, key) == d.v[CHOOSE i \in 1..Len(d.v) : d.v[i].k = key].v

\* d[key] = value : an existing key keeps its position, a new key is appended
Put(d, key, value) ==
    IF Has(d, key)
    THEN Dict([i \in 1..Len(d.v) |->
                 IF d.v[i].k = key THEN [k |-> key, v |-> value] ELSE d.v[i]])
    ELSE Dict(Append(d.v, [k |-> key, v |-> value]))

\* list(d.keys())
Keys(d) == [i \in 1..Len(d.v) |-> d.v[i].k]

Min(a, b) == IF a < b THEN a ELSE b

(* ------------------------- datetime ------------------------------------ *)

IsLeap(y) == y % 4 = 0 /\ (y % 100 /= 0 \/ y % 400 = 0)

DaysInMonth(y, m) ==
    IF m = 2 THEN (IF IsLeap(y) THEN 29 ELSE 28)
    ELSE IF m \in {4, 6, 9, 11} THEN 30 ELSE 31

\* datetime(y, m, d) raises ValueError unless this holds
ValidDate(y, m, d) == m \in 1..12 /\ d \in 1..DaysInMonth(y, m)

Date(y, m, d) == [year |-> y, month |-> m, day |-> d]

RECURSIVE DaysBeforeMonth(_, _)
DaysBeforeMonth(y, m) ==
    IF m = 1 THEN 0 ELSE DaysBeforeMonth(y, m - 1) + DaysInMonth(y, m - 1)

DaysBeforeYear(y) ==
    (y - 1) * 365 + ((y - 1) \div 4) - ((y - 1) \div 100) + ((y - 1) \div 400)

\* date.toordinal()
ToOrdinal(dt) ==
    DaysBeforeYear(dt.year) + DaysBeforeMonth(dt.year, dt.month) + dt.day

\* date.weekday(): Monday is 0, Sunday is 6
Weekday(dt) == (ToOrdinal(dt) + 6) % 7

\* dt + timedelta(days=1)
AddOneDay(dt) ==
    IF dt.day < DaysInMonth(dt.year, dt.month)
    THEN Date(dt.year, dt.month, dt.day + 1)
    ELSE IF dt.month < 12 THEN Date(dt.year, dt.month + 1, 1)
    ELSE Date(dt.year + 1, 1, 1)

\* date.isoformat() : "YYYY-MM-DD"
IsoFormat(dt) == <<dt.year, dt.month, dt.day>>

\* datetime.strptime(s, "%Y-%m-%d")
StrptimeYmd(s) == Date(s[1], s[2], s[3])

\* strftime('%A')
WeekdayNames ==
    <<"Monday", "Tuesday", "Wednesday", "Thursday", "Friday", "Saturday",
      "Sunday">>

(* ------------------------- DateManager --------------------------------- *)

\* get_day_name(day, month) in the current year y
get_day_name(y, day, month) ==
    IF ValidDate(y, month, day)
    THEN Returns(Str(WeekdayNames[Weekday(Date(y, month, day)) + 1]))
    ELSE Raises("ValueError")

english_to_serbian_day_name(day_name) ==
    CASE day_name = "Monday" -> "Ponedeljak"
      [] day_name = "Tuesday" -> "Utorak"
      [] day_name = "Wednesday" -> "Sreda"
      [] day_name = "Thursday" -> "Cetvrtak"
      [] day_name = "Friday" -> "Petak"
      [] day_name = "Saturday" -> "Subota"
      [] day_name = "Sunday" -> "Nedelja"
      [] OTHER -> "Unknown"

\* f"day_{day_counter}"
DayKey(day_counter) ==
    <<"day_1", "day_2", "day_3", "day_4", "day_5", "day_6", "day_7",
      "day_8">>[day_counter]

\* get_next_working_dates with Saturday taken for a working day
RECURSIVE NextWorkingLoop_mut(_, _, _)
NextWorkingLoop_mut(input_date, day_counter, result) ==
    IF Len(result) < 7
    THEN LET next == AddOneDay(input_date) IN
         IF Weekday(next) < 6
         THEN NextWorkingLoop_mut(next, day_counter + 1,
                  Append(result, <<DayKey(day_counter), IsoFormat(next)>>))
         ELSE NextWorkingLoop_mut(next, day_counter, result)
    ELSE result

\* the while loop of get_next_working_dates
RECURSIVE NextWorkingLoop(_, _, _)
NextWorkingLoop(input_date, day_counter, result) ==
    IF Len(result) < 7
    THEN LET next == AddOneDay(input_date) IN
         IF Weekday(next) < 5
         THEN NextWorkingLoop(next, day_counter + 1,
                  Append(result, <<DayKey(day_counter), IsoFormat(next)>>))
         ELSE NextWorkingLoop(next, day_counter, result)
    ELSE result

\* get_next_working_dates(day, month) in the current year y
get_next_working_dates(y, day, month) ==
    IF ValidDate(y, month, day)
    THEN Returns(List(NextWorkingLoop(Date(y, month, day), 1, <<>>)))
    ELSE Raises("ValueError")

\* datetime.strptime(s, "%H:%M"), as minutes since midnight
StrptimeHM(s) == s[1] * 60 + s[2]

\* Python's // on a float numerator that holds a whole number of minutes
FloorDiv(a, b) ==
    IF b > 0 THEN (IF a >= 0 THEN a \div b ELSE -((-a + b - 1) \div b))
    ELSE (IF a <= 0 THEN (-a) \div (-b) ELSE -((a - b - 1) \div (-b)))

\* datetime.time().isoformat() of 1900-01-01 00:00 + minutes : "HH:MM:SS"
TimeIsoFormat(minutes) ==
    <<(minutes % 1440) \div 60, (minutes % 1440) % 60, 0>>

EmptySlot ==
    Dict(<<[k |-> "name", v |-> None], [k |-> "contact", v |-> None],
           [k |-> "city", v |-> None], [k |-> "note", v |-> None]>>)

\* get_daily_schedules with session_time advanced before the slot is stored
ScheduleLoop_mut(upper_bound, start, total_session) ==
    Dict([i \in 1..upper_bound |->
            [k |-> TimeIsoFormat(start + i * total_session), v |-> EmptySlot]])

\* the while loop of get_daily_schedules: iteration i stores an empty slot
\* under the key of start + (i - 1) * total_session; a key stored twice
\* keeps the position of its first store
ScheduleLoop(upper_bound, start, total_session) ==
    LET keys == [i \in 1..upper_bound |->
                    TimeIsoFormat(start + (i - 1) * total_session)]
        first == SelectSeq([i \in 1..upper_bound |-> i],
                     LAMBDA i : \A j \in 1..(i - 1) : keys[j] /= keys[i])
    IN  Dict([n \in 1..Len(first) |-> [k |-> keys[first[n]], v |-> EmptySlot]])

get_daily_schedules(start_time, end_time, session_duration, break_duration) ==
    LET time_difference == StrptimeHM(end_time) - StrptimeHM(start_time)
        total_session == session_duration + break_duration
    IN  IF total_session = 0 THEN Raises("ZeroDivisionError")
        ELSE Returns(ScheduleLoop(FloorDiv(time_difference, total_session),
                         StrptimeHM(start_time), total_session))

(* --------------- pure-function specifications -------------------------- *)

NoRet == [op |-> "", exc |-> "", val |-> None]
Outcome(op, r) == [op |-> op, exc |-> r.exc, val |-> r.val]

Missing == [state |-> "missing", data |-> EmptyDict]

\* get_next_working_dates on every (day, month) the caller can pass
InitDates ==
    /\ year \in Years
    /\ file = Missing
    /\ pc = "idle"
    /\ log = <<>>
    /\ args \in {<<d, m>> : d \in 1..31, m \in 1..12}
    /\ ret = NoRet

CallGetNextWorkingDates ==
    /\ ret.op = ""
    /\ ret' = Outcome("get_next_working_dates",
                      get_next_working_dates(year, args[1], args[2]))
    /\ UNCHANGED <<year, file, pc, log, args>>

NextDates == CallGetNextWorkingDates

SpecDates == InitDates /\ [][NextDates]_vars

TimeInputs ==
    {<<9, 0>>, <<14, 30>>, <<15, 0>>, <<15, 47>>, <<16, 0>>, <<17, 10>>}
Durations == {10 * i : i \in (-MaxDuration)..MaxDuration}
Breaks == {10 * i : i \in (-MaxBreak)..MaxBreak}

InitGrid ==
    /\ year = FirstYear
    /\ file = Missing
    /\ pc = "idle"
    /\ log = <<>>
    /\ args \in {<<s, e, d, b>> : s \in TimeInputs, e \in TimeInputs,
                                   d \in Durations, b \in Breaks}
    /\ ret = NoRet

CallGetDailySchedules ==
    /\ ret.op = ""
    /\ ret' = Outcome("get_daily_schedules",
                      get_daily_schedules(args[1], args[2], args[3], args[4]))
    /\ UNCHANGED <<year, file, pc, log, args>>

NextGrid == CallGetDailySchedules

SpecGrid == InitGrid /\ [][NextGrid]_vars

(* ------------------------- JSONData ------------------------------------ *)

\* the backing file: absent, not parseable, or holding a JSON object
Malformed == [state |-> "malformed", data |-> EmptyDict]
Json(d) == [state |-> "json", data |-> d]

\* open(...) and json.load(...) succeed
Loadable(f) == f.state = "json"

\* read_json(key); key is None when omitted
read_json(f, key) ==
    IF ~Loadable(f) THEN None
    ELSE IF ~IsNone(key) /\ Has(f.data, key.v) THEN Get(f.data, key.v)
    ELSE f.data

\* for key in keys[:-1]: nested_dict = nested_dict.setdefault(key, {})
\* nested_dict[keys[-1]] = value
RECURSIVE SetPath(_, _, _)
SetPath(nested_dict, keys, value) ==
    IF Len(keys) = 1 THEN Put(nested_dict, keys[1], value)
    ELSE Put(nested_dict, keys[1],
             SetPath(IF Has(nested_dict, keys[1])
                     THEN Get(nested_dict, keys[1]) ELSE EmptyDict,
                     Tail(keys), value))

\* write_json(keys, value): the file afterwards and the value returned
write_json(f, keys, value) ==
    IF Loadable(f)
    THEN [file |-> Json(SetPath(f.data, keys, value)),
          val |-> Str(<<"updated in the JSON file", keys>>)]
    ELSE [file |-> f, val |-> None]

\* write_to_interview_sessions(main_key, value)
write_to_interview_sessions(f, main_key, value) ==
    IF Loadable(f)
    THEN [file |-> Json(Put(f.data, "interview_sessions", value)),
          val |-> Str(<<"updated in the 'interview_sessions' key", main_key>>)]
    ELSE [file |-> f, val |-> None]

(* ------------------------- Setup --------------------------------------- *)

main_key == "interview_sessions"

\* create_basic_json(): the file afterwards and the outcome
create_basic_json(f) ==
    LET basic_structure == read_json(f, Str("interview_sessions")) IN
    IF IsNone(basic_structure)
    THEN LET w == write_json(f, <<"interview_sessions">>, EmptyDict)
         IN  [file |-> w.file, out |-> Returns(w.val)]
    ELSE [file |-> f,
          out |-> Returns(Str("Basic JSON structure already exists."))]

\* bool(basic_structure) for None or a dict
is_interview_session_generated(f) ==
    LET basic_structure == read_json(f, Str("interview_sessions")) IN
    ~IsNone(basic_structure) /\ Len(basic_structure.v) > 0

\* the session_data literal of generate_interview_session
SessionData(y, input_data, english_day_name, schedule_data, dates) ==
    Dict(<<
      [k |-> "project name", v |-> Str(input_data.project_name)],
      [k |-> "session_date",
       v |-> Str(<<input_data.day, input_data.month, y>>)],
      [k |-> "day_name",
       v |-> List(<<Str(english_day_name),
                    Str(english_to_serbian_day_name(english_day_name))>>)],
      [k |-> "days",
       v |-> Dict([n \in 1..Len(dates) |->
                [k |-> dates[n][1],
                 v |-> Dict(<<[k |-> "date", v |-> Str(dates[n][2])],
                              [k |-> "schedules", v |-> schedule_data]>>)]])]
    >>)

\* generate_interview_session(input_data) in the current year y
generate_interview_session(y, f, input_data) ==
    LET name == get_day_name(y, input_data.day, input_data.month)
        sched == get_daily_schedules(input_data.start_time, <<16, 0>>,
                                     input_data.duration, input_data.break)
        dates == get_next_working_dates(y, input_data.day, input_data.month)
    IN  IF name.exc /= "" THEN [file |-> f, out |-> Raises(name.exc)]
        ELSE IF sched.exc /= "" THEN [file |-> f, out |-> Raises(sched.exc)]
        ELSE LET w == write_to_interview_sessions(f, input_data.project_name,
                          SessionData(y, input_data, name.val.v, sched.val,
                                      dates.val.v))
             IN  [file |-> w.file,
                  out |-> Returns(Str(<<"JSON data created for interview session",
                                        input_data.project_name>>))]

(* ------------------------- InterviewSession ---------------------------- *)

field_names == <<"name", "contact", "city", "note">>

\* the try block of set_candidate: the key of the first day whose date is
\* the given one
ResolveDate(f, date) ==
    LET session == read_json(f, Str(main_key)) IN
    IF IsNone(session) THEN Raises("TypeError")
    ELSE IF ~Has(session, "days") THEN Raises("KeyError")
    ELSE LET days == Get(session, "days")
             hits == {i \in 1..Len(days.v) :
                        Get(days.v[i].v, "date") = Str(date)}
         IN  IF hits = {} THEN Raises("StopIteration")
             ELSE Returns(Str(days.v[CHOOSE i \in hits :
                                       \A j \in hits : i <= j].k))

\* set_candidate writing under the first day whatever the date was
SlotPath_mut(session_date_key, schedule) ==
    <<"interview_sessions", "days", "day_1", "schedules", schedule>>

\* keys_base of set_candidate plus the field name
SlotPath(session_date_key, schedule) ==
    <<"interview_sessions", "days", session_date_key, "schedules", schedule>>

\* len(list(zip(field_names, user_data)))
ZipLen(user_data) == Min(Len(field_names), Len(user_data))

\* the slot stored under a day key and a schedule key, if there is one
HasSlot(f, session_date_key, schedule) ==
    Has(Get(Get(Get(Get(f.data, main_key), "days"), session_date_key),
            "schedules"), schedule)
SlotAt(f, session_date_key, schedule) ==
    Get(Get(Get(Get(Get(f.data, main_key), "days"), session_date_key),
            "schedules"), schedule)

\* datetime.strptime(date, '%Y-%m-%d').strftime('%d-%m')
FormatDayMonth(date) ==
    LET date_obj == StrptimeYmd(date) IN <<date_obj.day, date_obj.month>>

\* datetime.strptime(time, '%H:%M:%S').strftime('%H:%M')
FormatHourMinute(time) == <<time[1], time[2]>>

\* get_free_schedules without the test of the name
FreeOfDay_mut(schedules) ==
    [n \in 1..Len(schedules.v) |-> FormatHourMinute(schedules.v[n].k)]

\* the inner loop of get_free_schedules over one day's schedules
FreeOfDay(schedules) ==
    LET free == SelectSeq([i \in 1..Len(schedules.v) |-> i],
                    LAMBDA i : IsNone(Get(schedules.v[i].v, "name")))
    IN  [n \in 1..Len(free) |-> FormatHourMinute(schedules.v[free[n]].k)]

RECURSIVE FreeLoop(_, _, _)
FreeLoop(days, n, day_free_schedules) ==
    IF n > Len(days.v) THEN day_free_schedules
    ELSE FreeLoop(days, n + 1,
             Put(day_free_schedules,
                 FormatDayMonth(Get(days.v[n].v, "date").v),
                 List(FreeOfDay(Get(days.v[n].v, "schedules")))))

get_free_schedules(f) ==
    LET session_data == read_json(f, Str(main_key)) IN
    IF IsNone(session_data) THEN Raises("TypeError")
    ELSE IF ~Has(session_data, "days") THEN Raises("KeyError")
    ELSE LET days == Get(session_data, "days") IN
         IF \E n \in 1..Len(days.v) :
               \E i \in 1..Len(Get(days.v[n].v, "schedules").v) :
                  ~Has(Get(days.v[n].v, "schedules").v[i].v, "name")
         THEN Raises("KeyError")
         ELSE Returns(FreeLoop(days, 1, EmptyDict))

get_session_dates(f) ==
    LET session_data == read_json(f, Str(main_key)) IN
    IF IsNone(session_data) THEN Raises("TypeError")
    ELSE IF ~Has(session_data, "days") THEN Raises("KeyError")
    ELSE LET days == Get(session_data, "days") IN
         Returns(List([n \in 1..Len(days.v) |-> Get(days.v[n].v, "date")]))

\* get_session_days() in the current year y
get_session_days(y, f) ==
    LET session_data == read_json(f, Str(main_key)) IN
    IF IsNone(session_data) THEN Raises("TypeError")
    ELSE IF ~Has(session_data, "days") THEN Raises("KeyError")
    ELSE LET days == Get(session_data, "days")
             day_str(n) ==
                 LET date_proper == StrptimeYmd(Get(days.v[n].v, "date").v)
                 IN  get_day_name(y, date_proper.day, date_proper.month)
         IN  IF \E n \in 1..Len(days.v) : day_str(n).exc /= ""
             THEN Raises("ValueError")
             ELSE Returns(Dict(<<
                    [k |-> "eng",
                     v |-> List([n \in 1..Len(days.v) |-> day_str(n).val])],
                    [k |-> "sr",
                     v |-> List([n \in 1..Len(days.v) |->
                         Str(english_to_serbian_day_name(day_str(n).val.v))])]
                  >>))

(* ------------------------- Report -------------------------------------- *)

\* value[0] raises IndexError on the empty string
Subscriptable(value) == value.v /= ""

\* value[0] of a non-empty string: its first character, a string again
Item0(value) == Str(<<value.v, 0>>)

\* [value for value in v.values()
\*        if value is not None and value[0] is not None]
ScheduleInfo(v) ==
    LET kept == SelectSeq([i \in 1..Len(v.v) |-> i],
                    LAMBDA i : ~IsNone(v.v[i].v) /\ ~IsNone(Item0(v.v[i].v)))
    IN  [n \in 1..Len(kept) |-> v.v[kept[n]].v]

\* the inner loop of get_report_data over one day's schedules
DailySchedules(schedules) ==
    LET shown == SelectSeq([i \in 1..Len(schedules.v) |-> i],
                     LAMBDA i : Len(ScheduleInfo(schedules.v[i].v)) > 0)
    IN  [n \in 1..Len(shown) |->
            Dict(<<[k |-> schedules.v[shown[n]].k,
                    v |-> List(ScheduleInfo(schedules.v[shown[n]].v))]>>)]

get_report_data(f, lang) ==
    LET raw_interview_data == read_json(f, None) IN
    IF IsNone(raw_interview_data) THEN Raises("TypeError")
    ELSE IF ~Has(raw_interview_data, main_key) THEN Raises("KeyError")
    ELSE LET session == Get(raw_interview_data, main_key) IN
    IF \E key \in {"project name", "session_date", "day_name", "days"} :
           ~Has(session, key)
    THEN Raises("KeyError")
    ELSE LET names == Get(session, "day_name")
             interview_date_name ==
                 IF lang = "ENG" THEN names.v[1]
                 ELSE IF lang = "SR" THEN names.v[2] ELSE names
             days == Get(session, "days")
         IN  IF \E n \in 1..Len(days.v) :
                   LET schedules == Get(days.v[n].v, "schedules") IN
                   \E i \in 1..Len(schedules.v) :
                      \E j \in 1..Len(schedules.v[i].v.v) :
                         /\ ~IsNone(schedules.v[i].v.v[j].v)
                         /\ ~Subscriptable(schedules.v[i].v.v[j].v)
             THEN Raises("IndexError")
             ELSE Returns(Dict(<<
                    [k |-> "planner_data",
                     v |-> List(<<Get(session, "project name"),
                                  Get(session, "session_date"),
                                  interview_date_name>>)],
                    [k |-> "days",
                     v |-> List([n \in 1..Len(days.v) |->
                              Dict(<<[k |-> Get(days.v[n].v, "date").v,
                                      v |-> List(DailySchedules(
                                          Get(days.v[n].v, "schedules")))]>>)])]
                  >>))

(* ------------------------- the program --------------------------------- *)

\* inputs of generate_interview_session
SessionInputs ==
    {[project_name |-> "P1", day |-> 28, month |-> 12,
      start_time |-> <<15, 0>>, duration |-> 20, break |-> 10],
     [project_name |-> "P2", day |-> 14, month |-> 5,
      start_time |-> <<14, 30>>, duration |-> 45, break |-> 15],
     [project_name |-> "P3", day |-> 28, month |-> 12,
      start_time |-> <<15, 0>>, duration |-> 0, break |-> 0],
     [project_name |-> "P4", day |-> 31, month |-> 2,
      start_time |-> <<15, 0>>, duration |-> 20, break |-> 10]}

\* inputs of set_candidate: the date of the second day of the stored session
\* and a date no session holds
NoSuchDate == <<1900, 1, 1>>
BookingDates ==
    LET dates == get_session_dates(file) IN
    {NoSuchDate} \cup
    (IF dates.exc = "" /\ Len(dates.val.v) >= 2 THEN {dates.val.v[2].v}
     ELSE {})
BookingTimes == {<<15, 0, 0>>, <<15, 30, 0>>}
UserData ==
    {<<Str("Ana"), Str("060"), Str("Nis"), Str("ok")>>,
     <<None, Str(""), None, None>>}

Langs == {"ENG", "SR"}

Init ==
    /\ year = FirstYear
    /\ file \in {Missing, Malformed, Json(EmptyDict),
                 Json(Dict(<<[k |-> "interview_sessions", v |-> EmptyDict]>>))}
    /\ pc = "idle"
    /\ log = <<>>
    /\ args = <<>>
    /\ ret = NoRet

CreateBasicJson ==
    /\ pc = "idle"
    /\ LET r == create_basic_json(file) IN
       /\ file' = r.file
       /\ ret' = Outcome("create_basic_json", r.out)
    /\ UNCHANGED <<year, pc, log, args>>

GenerateInterviewSession(input_data) ==
    /\ pc = "idle"
    /\ LET r == generate_interview_session(year, file, input_data) IN
       /\ file' = r.file
       /\ ret' = Outcome("generate_interview_session", r.out)
       /\ log' = IF r.out.exc = "" /\ Loadable(file) THEN <<>> ELSE log
    /\ UNCHANGED <<year, pc, args>>

\* set_candidate up to the first write: the date is resolved to its day key
SetCandidate(date, schedule, user_data) ==
    /\ pc = "idle"
    /\ Len(log) < MaxBookings
    /\ LET key == ResolveDate(file, date) IN
       IF key.exc = "TypeError"
       THEN /\ ret' = Outcome("set_candidate", key)
            /\ UNCHANGED <<pc, log>>
       ELSE IF key.exc /= "" \/ ZipLen(user_data) = 0
       THEN /\ ret' = Outcome("set_candidate", Returns(None))
            /\ UNCHANGED <<pc, log>>
       ELSE /\ pc' = "writing"
            /\ log' = Append(log,
                   [date |-> date, key |-> key.val.v, schedule |-> schedule,
                    user_data |-> user_data, written |-> 0,
                    existed |-> HasSlot(file, key.val.v, schedule),
                    prior |-> IF HasSlot(file, key.val.v, schedule)
                              THEN SlotAt(file, key.val.v, schedule)
                              ELSE EmptyDict])
            /\ ret' = NoRet
    /\ UNCHANGED <<year, file, args>>

\* set_candidate writing its fields in the order note, city, contact, name
FieldOrder_mut(n) == field_names[5 - n]

\* the field written by the n-th iteration of the loop of set_candidate
FieldOrder(n) == field_names[n]

\* one iteration of the loop of set_candidate: one write_json call
WriteField ==
    /\ pc = "writing"
    /\ LET b == log[Len(log)]
           n == b.written + 1
           w == write_json(file,
                    Append(SlotPath(b.key, b.schedule), FieldOrder(n)),
                    b.user_data[n])
       IN  /\ file' = w.file
           /\ log' = [log EXCEPT ![Len(log)].written = n]
           /\ IF n = ZipLen(b.user_data)
              THEN /\ pc' = "idle"
                   /\ ret' = Outcome("set_candidate", Returns(None))
              ELSE UNCHANGED <<pc, ret>>
    /\ UNCHANGED <<year, args>>

\* the calls of set_candidate that stopped before their last write
Interrupted ==
    {i \in 1..Len(log) : /\ log[i].written < ZipLen(log[i].user_data)
                         /\ (i < Len(log) \/ pc = "idle")}

\* the process stops between two writes of set_candidate and is started anew
Interrupt ==
    /\ pc = "writing"
    /\ log[Len(log)].written >= 1
    /\ Cardinality(Interrupted) < MaxInterrupts
    /\ pc' = "idle"
    /\ ret' = Outcome("set_candidate", Raises("Interrupted"))
    /\ UNCHANGED <<year, file, log, args>>

Next ==
    \/ CreateBasicJson
    \/ \E input_data \in SessionInputs : GenerateInterviewSession(input_data)
    \/ \E date \in BookingDates, schedule \in BookingTimes,
          user_data \in UserData : SetCandidate(date, schedule, user_data)
    \/ WriteField
    \/ Interrupt

Spec == Init /\ [][Next]_vars

(* ------------------------- properties ---------------------------------- *)

\* the stored document holds a generated session
HasSession(f) ==
    /\ Loadable(f)
    /\ Has(f.data, main_key)
    /\ Has(Get(f.data, main_key), "days")

DaysOf(f) == Get(Get(f.data, main_key), "days")
SchedulesOf(f, n) == Get(DaysOf(f).v[n].v, "schedules")
DateOf(f, n) == Get(DaysOf(f).v[n].v, "date").v

\* the elements of a stored list
Elems(list) == {list.v[i] : i \in 1..Len(list.v)}

\* the last call of set_candidate that reached its loop
Last == log[Len(log)]
Completed(b) == b.written = 4

\* the four field values of a slot, in the order name, contact, city, note
FieldsOf(slot) == [j \in 1..4 |-> Get(slot, field_names[j])]
AllFields(slot) == \A j \in 1..4 : Has(slot, field_names[j])

\* weekday of a calendar date by Sakamoto's rule, Monday = 0
RefWeekday(y, m, d) ==
    LET t == <<0, 3, 2, 5, 0, 3, 5, 1, 4, 6, 2, 4>>
        yy == IF m < 3 THEN y - 1 ELSE y
    IN  ((yy + (yy \div 4) - (yy \div 100) + (yy \div 400) + t[m] + d) + 6) % 7

\* order of "YYYY-MM-DD" strings
IsoLess(a, b) ==
    \/ a[1] < b[1]
    \/ a[1] = b[1] /\ a[2] < b[2]
    \/ a[1] = b[1] /\ a[2] = b[2] /\ a[3] < b[3]

\* C1: after set_candidate(D, T, data) on an existing date and an existing
\* slot with a non-null name, get_free_schedules no longer lists T under D;
\* after a further set_candidate of another slot on the same date, the four
\* fields of slot T still hold the values of the first booking.
C1_BookedSlotNotFree ==
    /\ (/\ pc = "idle" /\ Len(log) >= 1
        /\ Completed(Last) /\ Last.existed /\ ~IsNone(Last.user_data[1]))
       => LET free == get_free_schedules(file) IN
          /\ free.exc = ""
          /\ Has(free.val, FormatDayMonth(Last.date))
          /\ <<Last.schedule[1], Last.schedule[2]>>
                \notin Elems(Get(free.val, FormatDayMonth(Last.date)))
    /\ (/\ pc = "idle" /\ Len(log) >= 2
        /\ Completed(Last) /\ Completed(log[Len(log) - 1])
        /\ log[Len(log) - 1].existed
        /\ ~IsNone(log[Len(log) - 1].user_data[1])
        /\ log[Len(log) - 1].date = Last.date
        /\ log[Len(log) - 1].schedule /= Last.schedule)
       => LET first == log[Len(log) - 1] IN
          /\ HasSlot(file, first.key, first.schedule)
          /\ FieldsOf(SlotAt(file, first.key, first.schedule))
                = first.user_data

C1_Witness ==
    /\ pc = "idle" /\ Len(log) = 2
    /\ Completed(log[1]) /\ Completed(log[2])
    /\ log[1].existed /\ log[2].existed
    /\ ~IsNone(log[1].user_data[1]) /\ ~IsNone(log[2].user_data[1])
    /\ log[1].date = log[2].date /\ log[1].schedule /= log[2].schedule
    /\ Elems(Get(get_free_schedules(file).val, FormatDayMonth(log[1].date)))
          = {}

\* C2: for every valid (day, month) of the current year
\* get_next_working_dates returns exactly 7 entries keyed day_1..day_7 in
\* order, with strictly increasing dates, each Monday to Friday, the first
\* strictly after the input date, and no working date in between skipped.
C2_NextWorkingDates ==
    (ret.op = "get_next_working_dates" /\ ValidDate(year, args[2], args[1]))
    => LET r == ret.val.v
           input == <<year, args[2], args[1]>>
       IN  /\ ret.exc = ""
           /\ Len(r) = 7
           /\ [n \in 1..7 |-> r[n][1]] =
                 <<"day_1", "day_2", "day_3", "day_4", "day_5", "day_6",
                   "day_7">>
           /\ \A n \in 1..6 : IsoLess(r[n][2], r[n + 1][2])
           /\ \A n \in 1..7 :
                 /\ ValidDate(r[n][2][1], r[n][2][2], r[n][2][3])
                 /\ RefWeekday(r[n][2][1], r[n][2][2], r[n][2][3]) < 5
           /\ IsoLess(input, r[1][2])
           /\ \A y \in {year, year + 1}, m \in 1..12, d \in 1..31 :
                 (/\ ValidDate(y, m, d)
                  /\ RefWeekday(y, m, d) < 5
                  /\ IsoLess(input, <<y, m, d>>)
                  /\ IsoLess(<<y, m, d>>, r[7][2]))
                 => \E n \in 1..7 : r[n][2] = <<y, m, d>>

C2_Witness ==
    /\ ret.op = "get_next_working_dates"
    /\ args = <<28, 12>>
    /\ ret.exc = ""
    /\ ret.val.v[7][2][1] = year + 1

\* C3: for start < end and total = session_duration + break_duration > 0,
\* get_daily_schedules returns exactly floor((end - start) / total) slots,
\* the k-th keyed start + (k - 1) * total minutes, each with four null
\* fields, and no slot's period ends after end_time.
C3_SlotGrid ==
    LET start == args[1][1] * 60 + args[1][2]
        end == args[2][1] * 60 + args[2][2]
        total == args[3] + args[4]
    IN  (ret.op = "get_daily_schedules" /\ start < end /\ total > 0)
        => /\ ret.exc = ""
           /\ Len(ret.val.v) = (end - start) \div total
           /\ \A k \in 1..Len(ret.val.v) :
                 LET at == start + (k - 1) * total IN
                 /\ ret.val.v[k].k = <<at \div 60, at % 60, 0>>
                 /\ AllFields(ret.val.v[k].v)
                 /\ Len(ret.val.v[k].v.v) = 4
                 /\ \A j \in 1..4 : IsNone(FieldsOf(ret.val.v[k].v)[j])
                 /\ at + total <= end

C3_Witness ==
    /\ ret.op = "get_daily_schedules"
    /\ args = <<<<9, 0>>, <<16, 0>>, 30, 10>>
    /\ ret.exc = ""
    /\ Len(ret.val.v) = 10
    /\ ret.val.v[2].k = <<9, 40, 0>>
    /\ ret.val.v[10].k = <<15, 0, 0>>

\* a slot with at least one non-null field
Filled(slot) == \E i \in 1..Len(slot.v) : ~IsNone(slot.v[i].v)

\* C4: get_report_data("ENG") and get_report_data("SR") differ only in the
\* weekday name of the planner entry, and both list a slot exactly when at
\* least one of its four fields is non-null, whatever values were booked.
C4_ReportInclusion ==
    HasSession(file)
    => LET eng == get_report_data(file, "ENG")
           sr == get_report_data(file, "SR")
       IN  /\ eng.exc = "" /\ sr.exc = ""
           /\ Get(eng.val, "days") = Get(sr.val, "days")
           /\ \A n \in 1..2 : Get(eng.val, "planner_data").v[n]
                                = Get(sr.val, "planner_data").v[n]
           /\ \A n \in 1..Len(DaysOf(file).v) :
                 \A i \in 1..Len(SchedulesOf(file, n).v) :
                    Filled(SchedulesOf(file, n).v[i].v)
                    <=> \E x \in Elems(Get(Get(eng.val, "days").v[n],
                                           DateOf(file, n))) :
                           Has(x, SchedulesOf(file, n).v[i].k)

\* C5: once create_basic_json has run, the stored document has the
\* "interview_sessions" key.
C5_KeyExistsAfterCreate ==
    ret.op = "create_basic_json"
    => Loadable(file) /\ Has(file.data, "interview_sessions")

\* C6: get_session_days returns, for each day in order, the English weekday
\* name of that day's stored ISO date, hence one of Monday..Friday.
C6_SessionDayNames ==
    HasSession(file)
    => LET days == get_session_days(year, file) IN
       /\ days.exc = ""
       /\ \A n \in 1..Len(DaysOf(file).v) :
             LET date == DateOf(file, n)
                 name == Get(days.val, "eng").v[n].v
             IN  /\ name = WeekdayNames[RefWeekday(date[1], date[2], date[3]) + 1]
                 /\ name \in {"Monday", "Tuesday", "Wednesday", "Thursday",
                              "Friday"}

\* C7: get_daily_schedules returns an empty grid, without failing, whenever
\* end_time <= start_time or session_duration + break_duration <= 0.
C7_DegenerateGridEmpty ==
    LET start == args[1][1] * 60 + args[1][2]
        end == args[2][1] * 60 + args[2][2]
        total == args[3] + args[4]
    IN  (ret.op = "get_daily_schedules" /\ (end <= start \/ total <= 0))
        => ret.exc = "" /\ Len(ret.val.v) = 0

\* C8: when the backing file cannot be loaded while
\* generate_interview_session persists the session, the failure reaches the
\* caller: no success result is returned, nothing is persisted and no
\* session is reported as generated.
C8_UnavailablePropagates ==
    (ret.op = "generate_interview_session" /\ ~Loadable(file))
    => /\ ret.exc /= ""
       /\ ~is_interview_session_generated(file)

SameOutsideSlot(f, g, key, schedule) ==
    /\ HasSession(g)
    /\ Keys(Get(g.data, main_key)) = Keys(Get(f.data, main_key))
    /\ \A k \in {"project name", "session_date", "day_name"} :
          Get(Get(g.data, main_key), k) = Get(Get(f.data, main_key), k)
    /\ Keys(DaysOf(g)) = Keys(DaysOf(f))
    /\ \A n \in 1..Len(DaysOf(f).v) :
          /\ DateOf(g, n) = DateOf(f, n)
          /\ Len(SchedulesOf(g, n).v) >= Len(SchedulesOf(f, n).v)
          /\ \A i \in 1..Len(SchedulesOf(f, n).v) :
                /\ SchedulesOf(g, n).v[i].k = SchedulesOf(f, n).v[i].k
                /\ (DaysOf(f).v[n].k /= key
                    \/ SchedulesOf(f, n).v[i].k /= schedule)
                   => SchedulesOf(g, n).v[i].v = SchedulesOf(f, n).v[i].v
          /\ \A i \in 1..Len(SchedulesOf(g, n).v) :
                i > Len(SchedulesOf(f, n).v)
                => /\ DaysOf(f).v[n].k = key
                   /\ SchedulesOf(g, n).v[i].k = schedule

\* C10: every step of set_candidate(D, T, data) changes nothing but slot T
\* of the day whose date is D: the slot T of every other day, the other
\* slots of that day, every date, the title and the session date stay as
\* they are, and no day or slot disappears.
C10_BookingFrame ==
    [][pc = "writing"
       => /\ Get(Get(DaysOf(file), Last.key), "date") = Str(Last.date)
          /\ SameOutsideSlot(file, file', Last.key, Last.schedule)]_vars

C10_Witness ==
    /\ pc = "idle" /\ Len(log) = 1
    /\ Completed(Last) /\ Last.existed /\ Last.key = "day_2"
    /\ ~IsNone(Last.user_data[1])
    /\ FieldsOf(SlotAt(file, "day_2", Last.schedule)) = Last.user_data
    /\ \A n \in 1..7 :
          n /= 2 => Get(SchedulesOf(file, n), Last.schedule) = EmptySlot
    /\ Len(DaysOf(file).v) = 7

====
